---- MODULE Spec2Model ----
(***************************************************************************)
(* Model of the deployment and reconciliation engine of tsuru:             *)
(*   provision/swarm/actions.go        the deployment pipeline             *)
(*                                     update-services ->                  *)
(*                                     update-image-in-db ->               *)
(*                                     remove-old-services                 *)
(*   provision/kubernetes/nodecontainer.go                                 *)
(*                                     DeployNodeContainer                 *)
(*   provision/docker/docker.go        container.ip()                      *)
(*                                                                         *)
(* Besides one run of each, the module has two deployment pipelines of one *)
(* app and two node-container reconciliations of one cluster running       *)
(* interleaved or one after the other.                                     *)
(*                                                                         *)
(* Process names are the integers 1..MaxProcs: the integer is the rank of  *)
(* the name in lexicographic order, so < on them is the order sort.Strings *)
(* uses.  Each external call (deploy, removeService, AppendAppImageName,   *)
(* Get, Create, Update) is one step that succeeds or fails.                *)
(***************************************************************************)
EXTENDS Integers, Sequences, FiniteSets, TLC

VARIABLES
    args,          \* swarm: the pipelineArgs of the run (image metadata)
    services,      \* swarm: process name -> image its Service runs, or NoService
    imageHistory,  \* swarm: the images AppendAppImageName recorded for the app
    pipe,          \* swarm: position and locals of the running pipeline
    calls,         \* swarm: every deploy / removeService call issued, in order
    rollbacks,     \* swarm: every invocation of rollbackAddedProcesses, in order
    firstRun,      \* swarm: the Service state after the first of two rollbacks
    ncRegistry,    \* kubernetes: the registered clusters, in forEachCluster order
    ncStored,      \* kubernetes: cluster -> the daemon object its API holds
    ncConfig,      \* kubernetes: the NodeContainerConfig object the caller passes
    ncCall,        \* kubernetes: the DeployNodeContainer call in progress
    ncLast,        \* kubernetes: what the last deployNodeContainerForCluster did
    ncWriter,      \* kubernetes: cluster -> the filter of the call that wrote its object
    parked,        \* swarm: the second pipeline of the app, while the other one runs
    ncRace,        \* kubernetes: two concurrent deployNodeContainerForCluster calls
    dk             \* docker: the container.ip() call

swarmVars == <<args, services, imageHistory, pipe, calls, rollbacks, firstRun>>

ncVars == <<ncRegistry, ncStored, ncConfig, ncCall, ncLast, ncWriter>>

restVars == <<parked, ncRace, dk>>

vars == <<swarmVars, ncVars, restVars>>

----------------------------------------------------------------------------
(* Bounds *)

MaxProcs == 4

MaxCalls == 2

----------------------------------------------------------------------------
(* kubernetes: data.  A string with separators ("src:dst:mode", "K=V") is  *)
(* the sequence of the parts strings.SplitN cuts it into.                  *)

Clusters == {"c1", "c2"}

\* The registries forEachCluster can walk: no cluster, one, or two.
Registries == {<<>>, <<"c1">>, <<"c1", "c2">>}

alphaAffinityAnnotation == "scheduler.alpha.kubernetes.io/affinity"

BsDefaultName == "big-sibling"

Pool == "pool1"

\* servicecommon.PoolFilter: Include only, Exclude only, both, neither.
PoolFilters == [Include : {<<>>, <<"pool1", "pool2">>},
                Exclude : {<<>>, <<"pool3">>}]

\* The binds appended for the default system-monitor container, lines 108-111.
ExtraBinds ==
    << <<"/var/log", "/var/log", "rw">>,
       <<"/var/lib/docker/containers", "/var/lib/docker/containers", "ro">>,
       <<"/mnt/sda1/var/lib/docker/containers", "/mnt/sda1/var/lib/docker/containers", "ro">> >>

\* The NodeContainerConfig objects a caller loads for one container name.
Configs(name) ==
    [name : {name},
     image : {"tsuru/bs:v1"},
     env : {<< <<"LOG", "1">>, <<"DEBUG">> >>},
     binds : {<< <<"/data", "/data", "ro">>, <<"/tmp">> >>},
     privileged : {FALSE},
     networkMode : {"host"},
     restart : {"always", "on-failure"}]

\* A Go map: nil, or a set of key/value pairs.
NilMap == [nil |-> TRUE, kv |-> {}]
EmptyMap == [nil |-> FALSE, kv |-> {}]

\* A *v1.Affinity: nil, or one node selector term with one requirement.
NilAffinity == [nil |-> TRUE, operator |-> "", values |-> <<>>]

\* reflect.DeepEqual on the values above: a nil map is not equal to an
\* empty one, a nil pointer only to a nil pointer.
DeepEqual(a, b) == a = b

\* json.Marshal of the affinity.
Marshal(affinity) == <<"nodeAffinity", affinity.operator, affinity.values>>

NoDaemonSet == [exists |-> FALSE]

\* The config object held while no DeployNodeContainer call has been made.
IdleConfig ==
    [name |-> "other", image |-> "tsuru/bs:v1", env |-> <<>>, binds |-> <<>>,
     privileged |-> FALSE, networkMode |-> "host", restart |-> "always"]

----------------------------------------------------------------------------
(* kubernetes: deployNodeContainerForCluster, the computation *)

NodeReqIncludeFirst(filter) ==
    IF Len(filter.Include) > 0
    THEN [operator |-> "In", values |-> filter.Include]
    ELSE [operator |-> "NotIn", values |-> filter.Exclude]

\* Lines 50-59.
NodeReq(filter) ==
    IF Len(filter.Exclude) > 0
    THEN [operator |-> "NotIn", values |-> filter.Exclude]
    ELSE [operator |-> "In", values |-> filter.Include]

\* Lines 61-71.
Affinity(filter) ==
    IF Len(NodeReq(filter).values) # 0
    THEN [nil |-> FALSE, operator |-> NodeReq(filter).operator,
          values |-> NodeReq(filter).values]
    ELSE NilAffinity

\* Lines 60, 72-78: an empty, non-nil map unless there is an affinity.
AffinityAnnotation(filter) ==
    IF Len(NodeReq(filter).values) # 0
    THEN [nil |-> FALSE, kv |-> {<<alphaAffinityAnnotation, Marshal(Affinity(filter))>>}]
    ELSE EmptyMap

\* Lines 96-103: strings.SplitN(v, "=", 2).
EnvVars(env) ==
    [i \in 1..Len(env) |->
        [name |-> env[i][1], value |-> IF Len(env[i]) > 1 THEN env[i][2] ELSE ""]]

\* Lines 106-112: the binds the volumes are built from; the append writes
\* them back into the config object.
BindsAfter(config) ==
    IF config.name = BsDefaultName THEN config.binds \o ExtraBinds ELSE config.binds

\* Lines 113-134: strings.SplitN(b, ":", 3), volume-<i> counted from 0.
Volumes(binds) ==
    [i \in 1..Len(binds) |-> [name |-> i - 1, hostPath |-> binds[i][1]]]

VolumeMounts(binds) ==
    [i \in 1..Len(binds) |->
        [name |-> i - 1,
         mountPath |-> IF Len(binds[i]) > 1 THEN binds[i][2] ELSE "",
         readOnly |-> Len(binds[i]) > 2 /\ binds[i][3] = "ro"]]

\* Lines 142-148.
RestartPolicy(config) ==
    CASE config.restart = "on-failure" -> "OnFailure"
      [] config.restart = "no" -> "Never"
      [] OTHER -> "Always"

\* Lines 89-95, 135-191: the desired object, rebuilt from the config.
DaemonSet(config, pool, filter) ==
    [exists |-> TRUE,
     name |-> <<"node-container", config.name, "pool", pool>>,
     selector |-> <<config.name, pool>>,
     updateStrategy |-> [type |-> "RollingUpdate", maxUnavailable |-> "20%"],
     labels |-> <<config.name, pool, "kubernetes">>,
     annotations |-> AffinityAnnotation(filter),
     affinity |-> Affinity(filter),
     volumes |-> Volumes(BindsAfter(config)),
     restartPolicy |-> RestartPolicy(config),
     hostNetwork |-> config.networkMode = "host",
     containers |-> << [name |-> config.name,
                        image |-> config.image,
                        env |-> EnvVars(config.env),
                        volumeMounts |-> VolumeMounts(BindsAfter(config)),
                        privileged |-> config.privileged] >>]

\* The object as the cluster API hands it back.  ObjectMeta.Annotations is
\* serialised with omitempty: an empty map is left out and read back as nil.
ApiObject(ds) ==
    [ds EXCEPT !.annotations = IF @.kv = {} THEN NilMap ELSE @]

\* Lines 80-81: is the existing object's placement the computed one?
PlacementMatches(oldDs, filter) ==
    /\ DeepEqual(oldDs.annotations, AffinityAnnotation(filter))
    /\ DeepEqual(oldDs.affinity, Affinity(filter))

ReconcileCreateWhenPresent(oldDs, config, pool, filter, placementOnly) ==
    IF oldDs.exists /\ placementOnly
    THEN IF PlacementMatches(oldDs, filter)
         THEN [write |-> "none", object |-> oldDs, binds |-> config.binds]
         ELSE [write |-> "update",
               object |-> [oldDs EXCEPT !.annotations = AffinityAnnotation(filter),
                                        !.affinity = Affinity(filter)],
               binds |-> config.binds]
    ELSE [write |-> IF oldDs.exists THEN "create" ELSE "update",
          object |-> DaemonSet(config, pool, filter),
          binds |-> BindsAfter(config)]

ReconcileAlwaysFull(oldDs, config, pool, filter, placementOnly) ==
    [write |-> IF oldDs.exists THEN "update" ELSE "create",
     object |-> DaemonSet(config, pool, filter),
     binds |-> BindsAfter(config)]

\* Lines 79-197 for the fetched object oldDs: the write the call issues,
\* the object it sends, and the binds the config object holds afterwards.
Reconcile(oldDs, config, pool, filter, placementOnly) ==
    IF oldDs.exists /\ placementOnly
    THEN IF PlacementMatches(oldDs, filter)
         THEN [write |-> "none", object |-> oldDs, binds |-> config.binds]
         ELSE [write |-> "update",
               object |-> [oldDs EXCEPT !.annotations = AffinityAnnotation(filter),
                                        !.affinity = Affinity(filter)],
               binds |-> config.binds]
    ELSE [write |-> IF oldDs.exists THEN "update" ELSE "create",
          object |-> DaemonSet(config, pool, filter),
          binds |-> BindsAfter(config)]

GetDaemonSetErrorAsAbsent(stored, get) ==
    [err |-> FALSE, oldDs |-> IF get THEN stored ELSE NoDaemonSet]

\* Lines 43-49: the Get of the stored object.  get is FALSE when the Get
\* fails with an error other than not-found, which is returned; a not-found
\* (nothing stored) leaves oldDs nil.
GetDaemonSet(stored, get) ==
    [err |-> ~get, oldDs |-> IF get THEN stored ELSE NoDaemonSet]

----------------------------------------------------------------------------
(* kubernetes: the call in progress and the record of the last one *)

NoFilter == [Include |-> <<>>, Exclude |-> <<>>]

NoCall ==
    [active |-> FALSE, filter |-> NoFilter, placementOnly |-> FALSE,
     todo |-> <<>>, result |-> "none", n |-> 0]

NoLast ==
    [cluster |-> "", filter |-> NoFilter, placementOnly |-> FALSE,
     get |-> TRUE, fetched |-> NoDaemonSet, fetchedWriter |-> NoFilter,
     writes |-> <<>>, result |-> "none"]

----------------------------------------------------------------------------
(* The parts of the model a specification leaves at rest *)

NoParked == [mode |-> "none"]

NoRace == [mode |-> "none"]

NoIp == [pc |-> "idle"]

----------------------------------------------------------------------------
(* swarm: data *)

Procs == 1..MaxProcs

NoService == "none"
CurrentImage == "current"
NewImage == "new"
Images == {CurrentImage, NewImage}

NoErr == [kind |-> "nil", proc |-> 0]
DeployErr(p) == [kind |-> "deploy", proc |-> p]
AppendErr == [kind |-> "append", proc |-> 0]

\* The orders in which the range loop over a Go map of these keys can run.
MapOrders(S) ==
    {s \in [1..Cardinality(S) -> S] : \A i, j \in 1..Cardinality(S) : s[i] = s[j] => i = j}

RECURSIVE InsertSorted(_, _)
InsertSorted(s, x) ==
    IF s = <<>> THEN <<x>>
    ELSE IF x <= Head(s) THEN <<x>> \o s
    ELSE <<Head(s)>> \o InsertSorted(Tail(s), x)

SortStringsSkipped(s) == s

RECURSIVE SortStrings(_)
SortStrings(s) ==
    IF s = <<>> THEN <<>> ELSE InsertSorted(SortStrings(Tail(s)), Head(s))

Range(s) == {s[i] : i \in 1..Len(s)}

DifferenceOfNothing(old, new) == old

DifferenceSwapped(old, new) == new \ old

\* set.FromMap(old).Difference(set.FromMap(new))
Difference(old, new) == old \ new

----------------------------------------------------------------------------
(* swarm: the Service Convergence Engine.  A call either succeeds and has  *)
(* its effect, or fails and leaves the Service as it was.                  *)

Deploy(svc, p, image, ok) == IF ok THEN [svc EXCEPT ![p] = image] ELSE svc

RemoveService(svc, p, ok) == IF ok THEN [svc EXCEPT ![p] = NoService] ELSE svc

Call(op, p, image, ok, phase) ==
    [op |-> op, proc |-> p, image |-> image, ok |-> ok, phase |-> phase]

----------------------------------------------------------------------------
(* swarm: the Action Pipeline that runs the three actions.  When the       *)
(* Forward of action number failed fails, the pipeline calls Backward, in  *)
(* reverse order, on the earlier actions that have one, then returns the   *)
(* error of the failing Forward.                                           *)

PipelineActions == <<"update-services", "update-image-in-db", "remove-old-services">>

\* Of the three actions only updateServices declares a Backward (line 68).
HasBackward(name) == name = "update-services"

RECURSIVE PipelineBackwards(_)
PipelineBackwards(failed) ==
    IF failed <= 1 THEN <<>>
    ELSE (IF HasBackward(PipelineActions[failed - 1])
          THEN <<PipelineActions[failed - 1]>> ELSE <<>>)
         \o PipelineBackwards(failed - 1)

----------------------------------------------------------------------------
(* swarm: rollbackAddedProcesses, one iteration of its loop *)

RollbackOpInverted(a, p) == IF p \in a.currentProcs THEN "remove" ELSE "deploy"

\* The call the loop body issues for processName: redeploy of the current
\* image when the current image defines the process, removeService otherwise.
RollbackOp(a, p) == IF p \in a.currentProcs THEN "deploy" ELSE "remove"

RollbackEffectWrongImage(a, svc, p, ok) ==
    IF RollbackOp(a, p) = "deploy"
    THEN Deploy(svc, p, a.newImage, ok)
    ELSE RemoveService(svc, p, ok)

RollbackEffectByService(a, svc, p, ok) ==
    IF svc[p] = a.newImage
    THEN Deploy(svc, p, a.currentImage, ok)
    ELSE RemoveService(svc, p, ok)

RollbackEffect(a, svc, p, ok) ==
    IF RollbackOp(a, p) = "deploy"
    THEN Deploy(svc, p, a.currentImage, ok)
    ELSE RemoveService(svc, p, ok)

RollbackCall(a, p, ok, phase) ==
    IF RollbackOp(a, p) = "deploy"
    THEN Call("deploy", p, a.currentImage, ok, phase)
    ELSE Call("remove", p, NoService, ok, phase)

RollbackIterationKeepsError(outcomes) ==
    /\ pipe.rbIdx <= Len(pipe.rbList)
    /\ LET p == pipe.rbList[pipe.rbIdx] IN
       \E ok \in outcomes :
         /\ services' = RollbackEffect(args, services, p, ok)
         /\ calls' = Append(calls, RollbackCall(args, p, ok, pipe.pc))
         /\ pipe' = [pipe EXCEPT !.rbIdx = @ + 1,
                                 !.rbErrors = IF ok THEN @ ELSE @ + 1,
                                 !.err = IF ok THEN @ ELSE DeployErr(p)]

RollbackIterationAbort(outcomes) ==
    /\ pipe.rbIdx <= Len(pipe.rbList)
    /\ LET p == pipe.rbList[pipe.rbIdx] IN
       \E ok \in outcomes :
         /\ services' = RollbackEffect(args, services, p, ok)
         /\ calls' = Append(calls, RollbackCall(args, p, ok, pipe.pc))
         /\ pipe' = [pipe EXCEPT !.rbIdx = IF ok THEN @ + 1 ELSE Len(pipe.rbList) + 1,
                                 !.rbErrors = IF ok THEN @ ELSE @ + 1]

\* Lines 29-39: the loop body for processes[rbIdx]; an error is logged only.
RollbackIteration(outcomes) ==
    /\ pipe.rbIdx <= Len(pipe.rbList)
    /\ LET p == pipe.rbList[pipe.rbIdx] IN
       \E ok \in outcomes :
         /\ services' = RollbackEffect(args, services, p, ok)
         /\ calls' = Append(calls, RollbackCall(args, p, ok, pipe.pc))
         /\ pipe' = [pipe EXCEPT !.rbIdx = @ + 1,
                                 !.rbErrors = IF ok THEN @ ELSE @ + 1]

----------------------------------------------------------------------------
(* swarm: the pipeline *)

PipeInit ==
    [pc |-> "start", toDeploy |-> <<>>, idx |-> 1, deployed |-> <<>>, err |-> NoErr,
     rbList |-> <<>>, rbIdx |-> 1, rbErrors |-> 0, removeTodo |-> {},
     fwResult |-> <<>>, result |-> "running"]

InitialServices(a) ==
    [p \in Procs |-> IF p \in a.currentProcs THEN a.currentImage ELSE NoService]

InitPipeline ==
    /\ args \in [currentProcs : SUBSET Procs, newProcs : SUBSET Procs,
                 currentImage : {CurrentImage}, newImage : {NewImage}]
    /\ services = InitialServices(args)
    /\ imageHistory = <<CurrentImage>>
    /\ pipe = PipeInit
    /\ calls = <<>>
    /\ rollbacks = <<>>
    /\ firstRun = services
    \* the kubernetes part is at rest
    /\ ncRegistry = <<>>
    /\ ncStored = [c \in Clusters |-> NoDaemonSet]
    /\ ncConfig = IdleConfig
    /\ ncCall = NoCall
    /\ ncLast = NoLast
    /\ ncWriter = [c \in Clusters |-> NoFilter]
    /\ parked = NoParked
    /\ ncRace = NoRace
    /\ dk = NoIp

\* updateServices.Forward, lines 51-54: collect the map's keys, sort them.
UpdateServicesStart ==
    /\ pipe.pc = "start"
    /\ \E order \in MapOrders(args.newProcs) :
         pipe' = [pipe EXCEPT !.pc = "deploy", !.toDeploy = SortStrings(order)]
    /\ UNCHANGED <<args, services, imageHistory, calls, rollbacks, firstRun, ncVars, restVars>>

\* What Forward does once the loop has ended with err != nil (lines 62-65).
ForwardFails(p) ==
    /\ pipe' = [pipe EXCEPT !.pc = "rollbackForward", !.err = DeployErr(p),
                            !.rbList = pipe.deployed, !.rbIdx = 1]
    /\ rollbacks' = Append(rollbacks, [by |-> "forward", list |-> pipe.deployed])

UpdateServicesDeployContinue ==
    /\ pipe.pc = "deploy"
    /\ pipe.idx <= Len(pipe.toDeploy)
    /\ LET p == pipe.toDeploy[pipe.idx] IN
       \E ok \in BOOLEAN :
         /\ services' = Deploy(services, p, args.newImage, ok)
         /\ calls' = Append(calls, Call("deploy", p, args.newImage, ok, "forward"))
         /\ IF ok
            THEN /\ pipe' = [pipe EXCEPT !.deployed = Append(@, p), !.idx = @ + 1,
                                         !.err = NoErr]
                 /\ UNCHANGED rollbacks
            ELSE IF pipe.idx < Len(pipe.toDeploy)
            THEN /\ pipe' = [pipe EXCEPT !.idx = @ + 1, !.err = DeployErr(p)]
                 /\ UNCHANGED rollbacks
            ELSE ForwardFails(p)
    /\ UNCHANGED <<args, imageHistory, firstRun, ncVars, restVars>>

UpdateServicesDeployNoRollback ==
    /\ pipe.pc = "deploy"
    /\ pipe.idx <= Len(pipe.toDeploy)
    /\ LET p == pipe.toDeploy[pipe.idx] IN
       \E ok \in BOOLEAN :
         /\ services' = Deploy(services, p, args.newImage, ok)
         /\ calls' = Append(calls, Call("deploy", p, args.newImage, ok, "forward"))
         /\ IF ok
            THEN pipe' = [pipe EXCEPT !.deployed = Append(@, p), !.idx = @ + 1]
            ELSE pipe' = [pipe EXCEPT !.pc = "done", !.result = "error",
                                      !.err = DeployErr(p)]
         /\ UNCHANGED rollbacks
    /\ UNCHANGED <<args, imageHistory, firstRun, ncVars, restVars>>

\* updateServices.Forward, lines 55-65: one iteration of the deploy loop; on
\* the first failure the loop breaks and Forward starts the rollback.
UpdateServicesDeploy ==
    /\ pipe.pc = "deploy"
    /\ pipe.idx <= Len(pipe.toDeploy)
    /\ LET p == pipe.toDeploy[pipe.idx] IN
       \E ok \in BOOLEAN :
         /\ services' = Deploy(services, p, args.newImage, ok)
         /\ calls' = Append(calls, Call("deploy", p, args.newImage, ok, "forward"))
         /\ IF ok
            THEN /\ pipe' = [pipe EXCEPT !.deployed = Append(@, p), !.idx = @ + 1]
                 /\ UNCHANGED rollbacks
            ELSE ForwardFails(p)
    /\ UNCHANGED <<args, imageHistory, firstRun, ncVars, restVars>>

\* updateServices.Forward, line 66: the loop ended with err == nil.
UpdateServicesReturn ==
    /\ pipe.pc = "deploy"
    /\ pipe.idx > Len(pipe.toDeploy)
    /\ pipe' = [pipe EXCEPT !.pc = "updateImageInDB", !.fwResult = pipe.deployed]
    /\ UNCHANGED <<args, services, imageHistory, calls, rollbacks, firstRun, ncVars, restVars>>

\* rollbackAddedProcesses, called by Forward (line 63) or Backward (line 71).
RollbackStep ==
    /\ pipe.pc \in {"rollbackForward", "rollbackBackward"}
    /\ RollbackIteration(BOOLEAN)
    /\ UNCHANGED <<args, imageHistory, rollbacks, firstRun, ncVars, restVars>>

\* rollbackAddedProcesses returns; Forward returns (nil, err) (line 64), or
\* Backward returns (line 72).  Either way the pipeline ends with the error.
RollbackReturn ==
    /\ pipe.pc \in {"rollbackForward", "rollbackBackward"}
    /\ pipe.rbIdx > Len(pipe.rbList)
    /\ pipe' = [pipe EXCEPT !.pc = "done", !.result = "error"]
    /\ UNCHANGED <<args, services, imageHistory, calls, rollbacks, firstRun, ncVars, restVars>>

\* updateImageInDB.Forward.  When it fails the pipeline runs the Backwards
\* of the earlier actions: updateServices.Backward with the Forward's result.
UpdateImageInDB ==
    /\ pipe.pc = "updateImageInDB"
    /\ \E ok \in BOOLEAN :
         IF ok
         THEN /\ imageHistory' = Append(imageHistory, args.newImage)
              /\ pipe' = [pipe EXCEPT !.pc = "removeOldServices",
                                      !.removeTodo = Difference(args.currentProcs, args.newProcs)]
              /\ UNCHANGED rollbacks
         ELSE /\ IF PipelineBackwards(2) = <<"update-services">>
                 THEN /\ pipe' = [pipe EXCEPT !.pc = "rollbackBackward", !.err = AppendErr,
                                              !.rbList = pipe.fwResult, !.rbIdx = 1]
                      /\ rollbacks' = Append(rollbacks,
                                             [by |-> "backward", list |-> pipe.fwResult])
                 ELSE /\ pipe' = [pipe EXCEPT !.pc = "done", !.err = AppendErr,
                                              !.result = "error"]
                      /\ UNCHANGED rollbacks
              /\ UNCHANGED imageHistory
    /\ UNCHANGED <<args, services, calls, firstRun, ncVars, restVars>>

RemoveOldServicesStepAbort ==
    /\ pipe.pc = "removeOldServices"
    /\ \E p \in pipe.removeTodo, ok \in BOOLEAN :
         /\ services' = RemoveService(services, p, ok)
         /\ calls' = Append(calls, Call("remove", p, NoService, ok, "removeOld"))
         /\ IF ok
            THEN pipe' = [pipe EXCEPT !.removeTodo = @ \ {p}]
            ELSE pipe' = [pipe EXCEPT !.pc = "done", !.result = "error"]
    /\ UNCHANGED <<args, imageHistory, rollbacks, firstRun, ncVars, restVars>>

\* removeOldServices.Forward, lines 93-98: one iteration, in map order; an
\* error is logged and ignored.
RemoveOldServicesStep ==
    /\ pipe.pc = "removeOldServices"
    /\ \E p \in pipe.removeTodo, ok \in BOOLEAN :
         /\ services' = RemoveService(services, p, ok)
         /\ calls' = Append(calls, Call("remove", p, NoService, ok, "removeOld"))
         /\ pipe' = [pipe EXCEPT !.removeTodo = @ \ {p}]
    /\ UNCHANGED <<args, imageHistory, rollbacks, firstRun, ncVars, restVars>>

\* removeOldServices.Forward, line 99: return nil, nil.
RemoveOldServicesReturn ==
    /\ pipe.pc = "removeOldServices"
    /\ pipe.removeTodo = {}
    /\ pipe' = [pipe EXCEPT !.pc = "done", !.result = "ok"]
    /\ UNCHANGED <<args, services, imageHistory, calls, rollbacks, firstRun, ncVars, restVars>>

NextPipeline ==
    \/ UpdateServicesStart
    \/ UpdateServicesDeploy
    \/ UpdateServicesReturn
    \/ RollbackStep
    \/ RollbackReturn
    \/ UpdateImageInDB
    \/ RemoveOldServicesStep
    \/ RemoveOldServicesReturn

----------------------------------------------------------------------------
(* swarm: rollbackAddedProcesses run twice in a row over the same list,    *)
(* every deploy and removeService call succeeding.  The list is a list     *)
(* update-services can record: a prefix of the sorted process names.  The  *)
(* Services of the listed processes start in any state.                    *)

InitRollbackTwice ==
    /\ \E cur \in SUBSET Procs, listed \in SUBSET Procs :
         /\ args = [currentProcs |-> cur, newProcs |-> listed,
                    currentImage |-> CurrentImage, newImage |-> NewImage]
         /\ \E order \in MapOrders(listed) :
              pipe = [PipeInit EXCEPT !.pc = "rollbackFirst",
                                      !.toDeploy = SortStrings(order),
                                      !.deployed = SortStrings(order),
                                      !.rbList = SortStrings(order)]
         /\ services \in [Procs -> Images \cup {NoService}]
         /\ \A p \in Procs \ listed : services[p] = InitialServices(args)[p]
    /\ imageHistory = <<CurrentImage>>
    /\ calls = <<>>
    /\ rollbacks = <<[by |-> "first", list |-> pipe.rbList]>>
    /\ firstRun = services
    \* the kubernetes part is at rest
    /\ ncRegistry = <<>>
    /\ ncStored = [c \in Clusters |-> NoDaemonSet]
    /\ ncConfig = IdleConfig
    /\ ncCall = NoCall
    /\ ncLast = NoLast
    /\ ncWriter = [c \in Clusters |-> NoFilter]
    /\ parked = NoParked
    /\ ncRace = NoRace
    /\ dk = NoIp

RollbackTwiceStep ==
    /\ pipe.pc \in {"rollbackFirst", "rollbackSecond"}
    /\ RollbackIteration({TRUE})
    /\ UNCHANGED <<args, imageHistory, rollbacks, firstRun, ncVars, restVars>>

\* The first run returns; the second starts over the same list.
RollbackFirstReturn ==
    /\ pipe.pc = "rollbackFirst"
    /\ pipe.rbIdx > Len(pipe.rbList)
    /\ firstRun' = services
    /\ pipe' = [pipe EXCEPT !.pc = "rollbackSecond", !.rbIdx = 1]
    /\ rollbacks' = Append(rollbacks, [by |-> "second", list |-> pipe.rbList])
    /\ UNCHANGED <<args, services, imageHistory, calls, ncVars, restVars>>

RollbackSecondReturn ==
    /\ pipe.pc = "rollbackSecond"
    /\ pipe.rbIdx > Len(pipe.rbList)
    /\ pipe' = [pipe EXCEPT !.pc = "rollbackTwiceDone"]
    /\ UNCHANGED <<args, services, imageHistory, calls, rollbacks, firstRun, ncVars, restVars>>

NextRollbackTwice ==
    \/ RollbackTwiceStep
    \/ RollbackFirstReturn
    \/ RollbackSecondReturn

----------------------------------------------------------------------------
(* swarm: two deployment pipelines for one app.  One of them runs, the     *)
(* other is parked; the scheduler switches between them between two        *)
(* external calls (interleaved), or only when the first has returned       *)
(* (serial).  Each pipeline has its own pipelineArgs, locals and call log; *)
(* the Services and the recorded images are the app's.                     *)

NewerImage == "newer"

RaceProcs == {1, 2}

\* The pipelineArgs of the second deployment, built when it starts: its
\* current image is the image recorded last, with that image's processes.
SecondArgs(history, first, second) ==
    IF history[Len(history)] = first.newImage
    THEN [second EXCEPT !.currentImage = first.newImage,
                        !.currentProcs = first.newProcs]
    ELSE [second EXCEPT !.currentImage = first.currentImage,
                        !.currentProcs = first.currentProcs]

InitTwoPipelines ==
    /\ args \in [currentProcs : SUBSET RaceProcs, newProcs : SUBSET RaceProcs,
                 currentImage : {CurrentImage}, newImage : {NewImage}]
    /\ services = InitialServices(args)
    /\ imageHistory = <<CurrentImage>>
    /\ pipe = PipeInit
    /\ calls = <<>>
    /\ rollbacks = <<>>
    /\ firstRun = services
    /\ parked \in [mode : {"serial", "interleaved"}, started : {FALSE},
                   args : [currentProcs : {{}}, newProcs : SUBSET RaceProcs,
                           currentImage : {CurrentImage}, newImage : {NewerImage}],
                   pipe : {PipeInit}, calls : {<<>>}, rollbacks : {<<>>}]
    \* the kubernetes and docker parts are at rest
    /\ ncRegistry = <<>>
    /\ ncStored = [c \in Clusters |-> NoDaemonSet]
    /\ ncConfig = IdleConfig
    /\ ncCall = NoCall
    /\ ncLast = NoLast
    /\ ncWriter = [c \in Clusters |-> NoFilter]
    /\ ncRace = NoRace
    /\ dk = NoIp

\* The running pipeline is parked and the parked one runs on, or starts.
SwitchPipeline ==
    /\ parked.mode # "none"
    /\ parked.pipe.pc # "done"
    /\ parked.mode = "serial" => pipe.pc = "done"
    /\ args' = IF parked.started THEN parked.args
               ELSE SecondArgs(imageHistory, args, parked.args)
    /\ pipe' = parked.pipe
    /\ calls' = parked.calls
    /\ rollbacks' = parked.rollbacks
    /\ parked' = [parked EXCEPT !.started = TRUE, !.args = args, !.pipe = pipe,
                                !.calls = calls, !.rollbacks = rollbacks]
    /\ UNCHANGED <<services, imageHistory, firstRun, ncVars, ncRace, dk>>

NextTwoPipelines ==
    \/ NextPipeline
    \/ SwitchPipeline

----------------------------------------------------------------------------
(* kubernetes: DeployNodeContainer, the calls *)

InitNodeContainer ==
    /\ ncRegistry \in Registries
    /\ ncStored = [c \in Clusters |-> NoDaemonSet]
    /\ ncConfig \in Configs(BsDefaultName) \cup Configs("other")
    /\ ncCall = NoCall
    /\ ncLast = NoLast
    /\ ncWriter = [c \in Clusters |-> NoFilter]
    \* the swarm part is at rest
    /\ args = [currentProcs |-> {}, newProcs |-> {},
               currentImage |-> CurrentImage, newImage |-> NewImage]
    /\ services = [p \in Procs |-> NoService]
    /\ imageHistory = <<>>
    /\ pipe = [pc |-> "idle"]
    /\ calls = <<>>
    /\ rollbacks = <<>>
    /\ firstRun = services
    /\ parked = NoParked
    /\ ncRace = NoRace
    /\ dk = NoIp

\* A caller invokes DeployNodeContainer, with the config object of the
\* call before or with one freshly loaded for the same container.
DeployNodeContainerStart ==
    /\ ~ncCall.active
    /\ ncCall.n < MaxCalls
    /\ \E filter \in PoolFilters, placementOnly \in BOOLEAN :
         ncCall' = [active |-> TRUE, filter |-> filter, placementOnly |-> placementOnly,
                    todo |-> ncRegistry, result |-> "running", n |-> ncCall.n + 1]
    /\ \E config \in {ncConfig} \cup Configs(ncConfig.name) : ncConfig' = config
    /\ UNCHANGED <<ncRegistry, ncStored, ncLast, ncWriter, swarmVars, restVars>>

\* deployNodeContainerForCluster for the next cluster of forEachCluster.
\* get: the outcome of the Get (an error other than not-found),
\* put: the outcome of the Create or Update.
DeployNodeContainerForCluster ==
    /\ ncCall.active
    /\ ncCall.result = "running"
    /\ ncCall.todo # <<>>
    /\ LET c == Head(ncCall.todo)
       IN \E get \in BOOLEAN, put \in BOOLEAN :
          LET fetch == GetDaemonSet(ncStored[c], get)
              oldDs == fetch.oldDs
              r == Reconcile(oldDs, ncConfig, Pool, ncCall.filter, ncCall.placementOnly)
              log == [cluster |-> c, filter |-> ncCall.filter,
                      placementOnly |-> ncCall.placementOnly, get |-> get,
                      fetched |-> oldDs, fetchedWriter |-> ncWriter[c],
                      writes |-> <<>>, result |-> "ok"]
          IN
            IF fetch.err
            THEN \* lines 44-47
                 /\ put
                 /\ ncLast' = [log EXCEPT !.result = "getError"]
                 /\ ncCall' = [ncCall EXCEPT !.result = "error"]
                 /\ UNCHANGED <<ncStored, ncConfig, ncWriter>>
            ELSE IF r.write = "none"
            THEN \* line 82
                 /\ put
                 /\ ncLast' = log
                 /\ ncCall' = [ncCall EXCEPT !.todo = Tail(@)]
                 /\ UNCHANGED <<ncStored, ncConfig, ncWriter>>
            ELSE \* lines 86-87, 192-197
                 /\ ncConfig' = [ncConfig EXCEPT !.binds = r.binds]
                 /\ ncLast' = [log EXCEPT !.writes = <<[kind |-> r.write, object |-> r.object]>>,
                                          !.result = IF put THEN "ok" ELSE "writeError"]
                 /\ ncStored' = IF put THEN [ncStored EXCEPT ![c] = ApiObject(r.object)]
                                ELSE ncStored
                 /\ ncWriter' = IF put THEN [ncWriter EXCEPT ![c] = ncCall.filter]
                                ELSE ncWriter
                 /\ ncCall' = IF put THEN [ncCall EXCEPT !.todo = Tail(@)]
                              ELSE [ncCall EXCEPT !.result = "error"]
    /\ UNCHANGED <<ncRegistry, swarmVars, restVars>>

\* forEachCluster has returned: the first error, or nil (lines 35-38: no
\* registered cluster is not an error).
DeployNodeContainerReturn ==
    /\ ncCall.active
    /\ ncCall.result = "error" \/ ncCall.todo = <<>>
    /\ ncCall' = [ncCall EXCEPT !.active = FALSE, !.todo = <<>>,
                                !.result = IF @ = "error" THEN "error" ELSE "ok"]
    /\ UNCHANGED <<ncRegistry, ncStored, ncConfig, ncLast, ncWriter, swarmVars, restVars>>

NextNodeContainer ==
    \/ DeployNodeContainerStart
    \/ DeployNodeContainerForCluster
    \/ DeployNodeContainerReturn

----------------------------------------------------------------------------
(* kubernetes: two deployNodeContainerForCluster calls for one cluster,    *)
(* config name and pool, by two callers, each with a config object of its  *)
(* own.  The Get (line 43) and the Create or Update (lines 86, 193, 195)   *)
(* are separate requests to the cluster API; in mode "mutex" a caller      *)
(* starts only when the other is not between its Get and its write.        *)

RaceCluster == "c1"

RaceCallers == {1, 2}

RaceCallerInit ==
    [pc : {"ready"}, config : Configs("other"), filter : PoolFilters,
     placementOnly : BOOLEAN, oldDs : {NoDaemonSet}, write : {"none"},
     result : {"running"}]

InitNodeContainerRace ==
    /\ ncRegistry = <<RaceCluster>>
    /\ \E stored \in {NoDaemonSet} \cup
                      {ApiObject(DaemonSet(config, Pool, filter)) :
                          config \in Configs("other"), filter \in PoolFilters} :
         ncStored = [c \in Clusters |-> IF c = RaceCluster THEN stored ELSE NoDaemonSet]
    /\ ncRace \in [mode : {"mutex", "free"}, caller : [RaceCallers -> RaceCallerInit],
                   order : {<<>>}, afterFirst : {NoDaemonSet}]
    /\ ncConfig = IdleConfig
    /\ ncCall = NoCall
    /\ ncLast = NoLast
    /\ ncWriter = [c \in Clusters |-> NoFilter]
    \* the swarm and docker parts are at rest
    /\ args = [currentProcs |-> {}, newProcs |-> {},
               currentImage |-> CurrentImage, newImage |-> NewImage]
    /\ services = [p \in Procs |-> NoService]
    /\ imageHistory = <<>>
    /\ pipe = [pc |-> "idle"]
    /\ calls = <<>>
    /\ rollbacks = <<>>
    /\ firstRun = services
    /\ parked = NoParked
    /\ dk = NoIp

\* Caller i returns with result; stored is the cluster's object then.
RaceReturn(i, write, result, stored) ==
    ncRace' = [ncRace EXCEPT !.caller[i].pc = "done",
                             !.caller[i].write = write,
                             !.caller[i].result = result,
                             !.order = Append(@, i),
                             !.afterFirst = IF ncRace.order = <<>> THEN stored ELSE @]

\* Lines 43-49 of caller i.
RaceGet(i) ==
    /\ ncRace.mode # "none"
    /\ ncRace.caller[i].pc = "ready"
    /\ ncRace.mode = "mutex" => \A j \in RaceCallers : ncRace.caller[j].pc # "fetched"
    /\ \E get \in BOOLEAN :
         LET fetch == GetDaemonSet(ncStored[RaceCluster], get) IN
         IF fetch.err
         THEN RaceReturn(i, "none", "getError", ncStored[RaceCluster])
         ELSE ncRace' = [ncRace EXCEPT !.caller[i].pc = "fetched",
                                       !.caller[i].oldDs = fetch.oldDs]
    /\ UNCHANGED <<ncRegistry, ncStored, ncConfig, ncCall, ncLast, ncWriter,
                   swarmVars, parked, dk>>

\* Lines 50-197 of caller i, for the object its Get returned.
RaceWrite(i) ==
    /\ ncRace.mode # "none"
    /\ ncRace.caller[i].pc = "fetched"
    /\ LET me == ncRace.caller[i]
           r == Reconcile(me.oldDs, me.config, Pool, me.filter, me.placementOnly)
       IN \E put \in BOOLEAN :
            IF r.write = "none"
            THEN /\ put
                 /\ RaceReturn(i, "none", "ok", ncStored[RaceCluster])
                 /\ UNCHANGED ncStored
            ELSE IF put
            THEN /\ ncStored' = [ncStored EXCEPT ![RaceCluster] = ApiObject(r.object)]
                 /\ RaceReturn(i, r.write, "ok", ApiObject(r.object))
            ELSE /\ RaceReturn(i, r.write, "writeError", ncStored[RaceCluster])
                 /\ UNCHANGED ncStored
    /\ UNCHANGED <<ncRegistry, ncConfig, ncCall, ncLast, ncWriter, swarmVars, parked, dk>>

NextNodeContainerRace ==
    \/ \E i \in RaceCallers : RaceGet(i)
    \/ \E i \in RaceCallers : RaceWrite(i)

----------------------------------------------------------------------------
(* docker: container.ip().  The output of docker inspect is a JSON text;   *)
(* a JSON value is its kind and, for a string, the string.                 *)

\* result["NetworkSettings"]["IpAddress"], or its absence.
IpAddressValues ==
    [t : {"absent", "null", "number"}, s : {""}]
        \cup [t : {"string"}, s : {"", "172.17.0.2", "10.0.0.1"}]

NoIpAddress == [t |-> "absent", s |-> ""]

\* result["NetworkSettings"], or its absence.
NetworkSettingsValues ==
    [t : {"absent", "null", "string", "number"}, ip : {NoIpAddress}]
        \cup [t : {"object"}, ip : IpAddressValues]

NoNetworkSettings == [t |-> "absent", ip |-> NoIpAddress]

\* What docker inspect can print: no JSON, or a JSON array, null or object.
InspectOutputs ==
    [t : {"malformed", "array", "null"}, ns : {NoNetworkSettings}]
        \cup [t : {"object"}, ns : NetworkSettingsValues]

\* json.Unmarshal into a map[string]interface{}: only an object or null decodes.
UnmarshalFails(out) == out.t \in {"malformed", "array"}

\* ns, ok := result["NetworkSettings"]; !ok || ns == nil
NetworkSettingsMissing(out) ==
    out.t # "object" \/ out.ns.t \in {"absent", "null"}

\* A type assertion x.(T) without the ok result panics unless x holds a T;
\* the value of an absent map key is the nil interface, which holds nothing.
AssertionSucceeds(v, kind) == v.t = kind

IpResult(kind, value) == [kind |-> kind, value |-> value]

InitIp ==
    /\ dk \in [pc : {"getString"}, binaryOk : BOOLEAN, inspectOk : BOOLEAN,
                out : InspectOutputs, result : {IpResult("none", "")}]
    \* the swarm part is at rest
    /\ args = [currentProcs |-> {}, newProcs |-> {},
               currentImage |-> CurrentImage, newImage |-> NewImage]
    /\ services = [p \in Procs |-> NoService]
    /\ imageHistory = <<>>
    /\ pipe = [pc |-> "idle"]
    /\ calls = <<>>
    /\ rollbacks = <<>>
    /\ firstRun = services
    /\ parked = NoParked
    \* the kubernetes part is at rest
    /\ ncRegistry = <<>>
    /\ ncStored = [c \in Clusters |-> NoDaemonSet]
    /\ ncConfig = IdleConfig
    /\ ncCall = NoCall
    /\ ncLast = NoLast
    /\ ncWriter = [c \in Clusters |-> NoFilter]
    /\ ncRace = NoRace

IpReturn(kind, value) ==
    dk' = [dk EXCEPT !.pc = "done", !.result = IpResult(kind, value)]

\* Lines 43-46: config.GetString("docker:binary").
IpGetString ==
    /\ dk.pc = "getString"
    /\ IF dk.binaryOk THEN dk' = [dk EXCEPT !.pc = "inspect"]
                      ELSE IpReturn("error", "config")
    /\ UNCHANGED <<swarmVars, ncVars, parked, ncRace>>

\* Lines 48-53: runCmd(docker, "inspect", c.instanceId).
IpInspect ==
    /\ dk.pc = "inspect"
    /\ IF dk.inspectOk THEN dk' = [dk EXCEPT !.pc = "unmarshal"]
                       ELSE IpReturn("error", "inspect")
    /\ UNCHANGED <<swarmVars, ncVars, parked, ncRace>>

\* Lines 54-59: json.Unmarshal.
IpUnmarshal ==
    /\ dk.pc = "unmarshal"
    /\ IF UnmarshalFails(dk.out) THEN IpReturn("error", "json")
                                 ELSE dk' = [dk EXCEPT !.pc = "networkSettings"]
    /\ UNCHANGED <<swarmVars, ncVars, parked, ncRace>>

\* Lines 60-65: the NetworkSettings test and the assertion to a map.
IpNetworkSettings ==
    /\ dk.pc = "networkSettings"
    /\ IF NetworkSettingsMissing(dk.out) THEN IpReturn("error", "NetworkSettings")
       ELSE IF AssertionSucceeds(dk.out.ns, "object")
       THEN dk' = [dk EXCEPT !.pc = "ipAddress"]
       ELSE IpReturn("panic", "NetworkSettings")
    /\ UNCHANGED <<swarmVars, ncVars, parked, ncRace>>

\* Lines 66-73: the assertion of IpAddress to a string, the empty test.
IpAddress ==
    /\ dk.pc = "ipAddress"
    /\ IF ~AssertionSucceeds(dk.out.ns.ip, "string") THEN IpReturn("panic", "IpAddress")
       ELSE IF dk.out.ns.ip.s = "" THEN IpReturn("error", "empty")
       ELSE IpReturn("ip", dk.out.ns.ip.s)
    /\ UNCHANGED <<swarmVars, ncVars, parked, ncRace>>

NextIp ==
    \/ IpGetString
    \/ IpInspect
    \/ IpUnmarshal
    \/ IpNetworkSettings
    \/ IpAddress

----------------------------------------------------------------------------
(* Specifications *)

Init == InitPipeline

Next == NextPipeline

Spec == Init /\ [][Next]_vars

\* The pipeline is sequential code and every external call returns, with
\* success or with an error: a pipeline that can take a step takes it.
SpecLive == Init /\ [][Next]_vars /\ WF_vars(Next)

SpecRollbackTwice == InitRollbackTwice /\ [][NextRollbackTwice]_vars

SpecTwoPipelines == InitTwoPipelines /\ [][NextTwoPipelines]_vars

SpecNodeContainer == InitNodeContainer /\ [][NextNodeContainer]_vars

SpecNodeContainerRace == InitNodeContainerRace /\ [][NextNodeContainerRace]_vars

SpecIp == InitIp /\ [][NextIp]_vars

----------------------------------------------------------------------------
(* swarm: what the claims speak about *)

Running == {p \in Procs : services[p] # NoService}

Done == pipe.pc = "done"

Succeeded == Done /\ pipe.result = "ok"

Failed == Done /\ pipe.result = "error"

CallsOf(phase) == SelectSeq(calls, LAMBDA c : c.phase = phase)

\* The processes whose removeService call in remove-old-services failed.
RemovalFailed ==
    {p \in Procs : \E i \in 1..Len(calls) :
        calls[i].phase = "removeOld" /\ calls[i].proc = p /\ ~calls[i].ok}

\* update-services Forward has returned the error of a failed deploy.
ForwardFailed == Done /\ pipe.err.kind = "deploy"

----------------------------------------------------------------------------
(* C1 as stated: whenever the pipeline returns success, whichever deploy   *)
(* or removeService calls failed, the processes with a running Service are *)
(* exactly the processes of the new image.                                 *)
C1_AsStated == Succeeded => Running = args.newProcs

(* C1, amended: whenever the pipeline returns success, every process of    *)
(* the new image runs the new image, and a process outside the new image   *)
(* still has a Service only if it is a process of the old image whose      *)
(* removeService call failed.                                              *)
C1_SuccessServices ==
    Succeeded =>
        /\ \A p \in args.newProcs : services[p] = NewImage
        /\ RemovalFailed \subseteq args.currentProcs \ args.newProcs
        /\ args.newProcs \subseteq Running
        /\ Running \subseteq args.newProcs \cup RemovalFailed

C1_Witness ==
    /\ Succeeded
    /\ args.newProcs # {}
    /\ RemovalFailed # {}
    /\ (args.currentProcs \ args.newProcs) \ RemovalFailed # {}

----------------------------------------------------------------------------
(* C2 as stated: once Forward has returned after the deploy of the k-th    *)
(* process failed, each of the first k-1 processes runs the current image  *)
(* if the current image defines it and has no Service if it does not, and  *)
(* no deploy with the new image was issued for a process after position k. *)
C2_AsStated ==
    ForwardFailed =>
        /\ \A p \in Range(pipe.deployed) :
             services[p] = IF p \in args.currentProcs THEN CurrentImage ELSE NoService
        /\ \A i \in 1..Len(calls) :
             (calls[i].op = "deploy" /\ calls[i].image = NewImage)
                => calls[i].proc \in {pipe.toDeploy[j] : j \in 1..pipe.idx}

(* C2, amended: once Forward has returned after the deploy of the k-th     *)
(* process failed, the rollback has issued exactly one call for each of    *)
(* the first k-1 processes, in order: a deploy of the current image if the *)
(* current image defines the process, a removeService if not; the process  *)
(* is restored (or removed) whenever that call succeeded; and no deploy    *)
(* with the new image was issued for a process after position k.           *)
C2_RollbackOnKthFailure ==
    ForwardFailed =>
        LET rb == CallsOf("rollbackForward") IN
        /\ pipe.deployed = SubSeq(pipe.toDeploy, 1, pipe.idx - 1)
        /\ Len(rb) = pipe.idx - 1
        /\ \A i \in 1..Len(rb) :
             /\ rb[i].proc = pipe.toDeploy[i]
             /\ rb[i].proc \in args.currentProcs =>
                    /\ rb[i].op = "deploy" /\ rb[i].image = CurrentImage
                    /\ rb[i].ok => services[rb[i].proc] = CurrentImage
             /\ rb[i].proc \notin args.currentProcs =>
                    /\ rb[i].op = "remove"
                    /\ rb[i].ok => services[rb[i].proc] = NoService
        /\ \A i \in 1..Len(calls) :
             (calls[i].op = "deploy" /\ calls[i].image = NewImage)
                => calls[i].proc \in {pipe.toDeploy[j] : j \in 1..pipe.idx}

C2_Witness ==
    /\ ForwardFailed
    /\ pipe.idx = 3
    /\ Len(pipe.toDeploy) > 3
    /\ pipe.toDeploy[1] \in args.currentProcs
    /\ pipe.toDeploy[2] \notin args.currentProcs
    /\ \E i \in 1..Len(calls) : calls[i].phase = "rollbackForward" /\ ~calls[i].ok

----------------------------------------------------------------------------
(* C3: when the pipeline returns an error and every rollback call          *)
(* succeeded, the Services are again exactly the processes of the current  *)
(* image, each running the current image.                                  *)
C3_RollbackRestores ==
    (Failed /\ pipe.rbErrors = 0) => services = InitialServices(args)

C3_Witness ==
    /\ Failed
    /\ pipe.rbErrors = 0
    /\ pipe.err.kind = "deploy"
    /\ \E p \in Range(pipe.rbList) : p \in args.currentProcs
    /\ \E p \in Range(pipe.rbList) : p \notin args.currentProcs

----------------------------------------------------------------------------
(* C4: the new image is in the app's image history only if the deploy of   *)
(* the new image succeeded for every process of the new image, no deploy   *)
(* of update-services failed, and every process of the new image runs the  *)
(* new image.                                                              *)
C4_RecordAfterFullDeploy ==
    /\ Len(imageHistory) > 1 =>
         /\ Range(pipe.deployed) = args.newProcs
         /\ \A p \in args.newProcs :
              /\ services[p] = NewImage
              /\ \E i \in 1..Len(calls) :
                   calls[i] = Call("deploy", p, NewImage, TRUE, "forward")
    /\ (\E i \in 1..Len(calls) : calls[i].phase = "forward" /\ ~calls[i].ok)
         => imageHistory = <<CurrentImage>>

C4_Witness ==
    /\ imageHistory = <<CurrentImage, NewImage>>
    /\ Cardinality(args.newProcs) >= 2

----------------------------------------------------------------------------
(* C5: remove-old-services calls removeService only for processes of the   *)
(* current image that the new image lacks; once it has returned it has     *)
(* called removeService once for each of them, whatever removals failed,   *)
(* the pipeline has succeeded and no rollback has run.                     *)
C5_RemoveOldSwallows ==
    LET rm == CallsOf("removeOld") IN
    /\ \A i \in 1..Len(rm) :
         /\ rm[i].op = "remove"
         /\ rm[i].proc \in args.currentProcs \ args.newProcs
         /\ \A j \in 1..Len(rm) : rm[i].proc = rm[j].proc => i = j
    /\ (Done /\ Len(imageHistory) > 1) =>
         /\ {rm[i].proc : i \in 1..Len(rm)} = args.currentProcs \ args.newProcs
         /\ pipe.result = "ok"
         /\ rollbacks = <<>>

C5_Witness ==
    LET rm == CallsOf("removeOld") IN
    /\ Succeeded
    /\ Len(rm) >= 2
    /\ ~rm[1].ok

----------------------------------------------------------------------------
(* C10: rollbackAddedProcesses runs at most once in a pipeline run.  When  *)
(* the run ended by a failed deploy it ran once, called by Forward with    *)
(* the processes deployed so far; when the run ended by a failed           *)
(* AppendAppImageName it ran once, called by Backward with every process   *)
(* of the new image, and remove-old-services issued no call; when the run  *)
(* succeeded it did not run.  A run of it issues one call per list entry.  *)
C10_RollbackOnce ==
    /\ Len(rollbacks) <= 1
    /\ Done =>
         /\ pipe.err.kind = "deploy" =>
              /\ rollbacks = <<[by |-> "forward", list |-> pipe.deployed]>>
              /\ Len(CallsOf("rollbackForward")) = Len(pipe.deployed)
              /\ CallsOf("rollbackBackward") = <<>>
         /\ pipe.err.kind = "append" =>
              /\ rollbacks = <<[by |-> "backward", list |-> pipe.toDeploy]>>
              /\ Range(pipe.toDeploy) = args.newProcs
              /\ Len(CallsOf("rollbackBackward")) = Len(pipe.toDeploy)
              /\ CallsOf("rollbackForward") = <<>>
              /\ CallsOf("removeOld") = <<>>
         /\ pipe.result = "ok" =>
              /\ rollbacks = <<>>
              /\ CallsOf("rollbackForward") = <<>>
              /\ CallsOf("rollbackBackward") = <<>>
         /\ pipe.result = "error" <=> pipe.err # NoErr

C10_Witness ==
    /\ Done
    /\ pipe.err.kind = "append"
    /\ Len(pipe.rbList) >= 2
    /\ Difference(args.currentProcs, args.newProcs) # {}

----------------------------------------------------------------------------
(* C6: when rollbackAddedProcesses has run twice over the same list, every *)
(* call succeeding, the Services are as they were after the first run.     *)
C6_RollbackIdempotent ==
    pipe.pc = "rollbackTwiceDone" => services = firstRun

C6_Witness ==
    /\ pipe.pc = "rollbackTwiceDone"
    /\ Len(calls) = 2 * Len(pipe.rbList)
    /\ \E p \in Range(pipe.rbList) : p \in args.currentProcs /\ services[p] = CurrentImage
    /\ \E p \in Range(pipe.rbList) : p \notin args.currentProcs /\ services[p] = NoService

----------------------------------------------------------------------------
(* kubernetes: what the claims speak about *)

\* The last deployNodeContainerForCluster got past the Get.
Fetched == ncLast.result \in {"ok", "writeError"}

\* It ran placement-only on an object that the Get found.
PlacementOnlyRun == Fetched /\ ncLast.placementOnly /\ ncLast.fetched.exists

\* Every field of a daemon object but the pod-template annotations and the
\* pod-spec affinity.
OtherFields(ds) == [ds EXCEPT !.annotations = NilMap, !.affinity = NilAffinity]

\* The object's affinity and affinity annotation encode the filter.
Encodes(ds, filter) ==
    IF filter.Exclude # <<>>
    THEN /\ ds.affinity = [nil |-> FALSE, operator |-> "NotIn", values |-> filter.Exclude]
         /\ ds.annotations = [nil |-> FALSE,
                              kv |-> {<<alphaAffinityAnnotation, Marshal(ds.affinity)>>}]
    ELSE IF filter.Include # <<>>
    THEN /\ ds.affinity = [nil |-> FALSE, operator |-> "In", values |-> filter.Include]
         /\ ds.annotations = [nil |-> FALSE,
                              kv |-> {<<alphaAffinityAnnotation, Marshal(ds.affinity)>>}]
    ELSE /\ ds.affinity = NilAffinity
         /\ ds.annotations.kv = {}

----------------------------------------------------------------------------
(* C7 as stated: when the object the Get returned was written by a         *)
(* reconciliation with the filter of this call, a placement-only call      *)
(* issues no Create and no Update and succeeds.                            *)
C7_AsStated ==
    (PlacementOnlyRun /\ ncLast.fetchedWriter = ncLast.filter)
        => ncLast.writes = <<>> /\ ncLast.result = "ok"

(* C7, the part the code keeps: the same, for a filter that yields an      *)
(* affinity (Exclude or Include non-empty).                                *)
C7_NoopWithAffinity ==
    (PlacementOnlyRun /\ ncLast.fetchedWriter = ncLast.filter
        /\ (ncLast.filter.Exclude # <<>> \/ ncLast.filter.Include # <<>>))
        => ncLast.writes = <<>> /\ ncLast.result = "ok"

C7_WitnessWithAffinity ==
    /\ PlacementOnlyRun
    /\ ncLast.fetchedWriter = ncLast.filter
    /\ ncLast.filter.Exclude # <<>>
    /\ ncLast.writes = <<>>

----------------------------------------------------------------------------
(* C8: a placement-only call on an existing object whose annotations or    *)
(* affinity differ from the computed ones issues exactly one write, an     *)
(* Update of the fetched object with the computed annotations and          *)
(* affinity and every other field as fetched.                              *)
C8_PlacementUpdateOnly ==
    (PlacementOnlyRun
        /\ (ncLast.fetched.annotations # AffinityAnnotation(ncLast.filter)
            \/ ncLast.fetched.affinity # Affinity(ncLast.filter)))
        => /\ Len(ncLast.writes) = 1
           /\ ncLast.writes[1].kind = "update"
           /\ OtherFields(ncLast.writes[1].object) = OtherFields(ncLast.fetched)
           /\ ncLast.writes[1].object.annotations = AffinityAnnotation(ncLast.filter)
           /\ ncLast.writes[1].object.affinity = Affinity(ncLast.filter)

C8_Witness ==
    /\ PlacementOnlyRun
    /\ ncLast.result = "ok"
    /\ ~ncLast.fetched.affinity.nil
    /\ ~Affinity(ncLast.filter).nil
    /\ ncLast.fetched.affinity # Affinity(ncLast.filter)
    /\ Len(ncLast.writes) = 1
    /\ OtherFields(DaemonSet(ncConfig, Pool, ncLast.filter)) # OtherFields(ncLast.fetched)

----------------------------------------------------------------------------
(* C9: after a successful deployNodeContainerForCluster the cluster's      *)
(* object exists and encodes the filter of the call, and after a           *)
(* successful DeployNodeContainer the object of every registered cluster   *)
(* does: 'not in' over Exclude when Exclude is non-empty, else 'in' over   *)
(* Include when Include is non-empty, else no affinity and no annotation.  *)
C9_AffinityEncodesFilter ==
    /\ ncLast.result = "ok" =>
         /\ ncStored[ncLast.cluster].exists
         /\ Encodes(ncStored[ncLast.cluster], ncLast.filter)
    /\ (~ncCall.active /\ ncCall.result = "ok") =>
         \A c \in Range(ncRegistry) :
            ncStored[c].exists /\ Encodes(ncStored[c], ncCall.filter)

C9_Witness ==
    /\ ~ncCall.active
    /\ ncCall.result = "ok"
    /\ ncCall.n >= 2
    /\ Len(ncRegistry) = 2
    /\ ncCall.filter.Exclude # <<>>
    /\ ncCall.filter.Include # <<>>
    /\ ncLast.fetched.exists
    /\ ncLast.fetched.affinity.operator = "In"

----------------------------------------------------------------------------
(* swarm: what the later claims speak about *)

RollingBack == pipe.pc \in {"rollbackForward", "rollbackBackward"}

\* The calls rollbackAddedProcesses issued.
RollbackCalls == SelectSeq(calls, LAMBDA c : c.phase \in {"rollbackForward", "rollbackBackward"})

----------------------------------------------------------------------------
(* C11: a started rollbackAddedProcesses finishes; when it has finished it *)
(* has issued one call for every name of its list, in list order, also     *)
(* after a call for an earlier name failed; and while it runs the error    *)
(* the pipeline will return stays the error of the failed forward step.    *)
C11_RollbackCompletes ==
    /\ RollingBack ~> Done
    /\ [](Done /\ rollbacks # <<>> =>
            /\ Len(RollbackCalls) = Len(pipe.rbList)
            /\ \A i \in 1..Len(pipe.rbList) : RollbackCalls[i].proc = pipe.rbList[i]
            /\ pipe.rbErrors = Cardinality({i \in 1..Len(RollbackCalls) : ~RollbackCalls[i].ok}))
    /\ [][RollingBack => pipe'.err = pipe.err /\ pipe.err # NoErr]_vars

C11_Witness ==
    /\ Done
    /\ Len(pipe.rbList) >= 3
    /\ ~RollbackCalls[1].ok
    /\ RollbackCalls[2].ok
    /\ ~RollbackCalls[3].ok

----------------------------------------------------------------------------
(* C12: the deploy calls of update-services go out in strictly ascending   *)
(* order of process name, the i-th call for the i-th smallest name of the  *)
(* new image whatever order the process map was ranged over, and the       *)
(* rollback calls go out in that same ascending order, the i-th rollback   *)
(* call for the process of the i-th deploy call.                           *)
C12_AscendingOrder ==
    LET fw == CallsOf("forward")
        rb == RollbackCalls
    IN /\ \A i, j \in 1..Len(fw) : i < j => fw[i].proc < fw[j].proc
       /\ \A i \in 1..Len(fw) :
            /\ fw[i].proc \in args.newProcs
            /\ Cardinality({q \in args.newProcs : q < fw[i].proc}) = i - 1
       /\ \A i, j \in 1..Len(rb) : i < j => rb[i].proc < rb[j].proc
       /\ \A i \in 1..Len(rb) : rb[i].proc = fw[i].proc /\ fw[i].ok

C12_Witness ==
    /\ Done
    /\ Len(CallsOf("forward")) >= 4
    /\ Len(RollbackCalls) >= 3
    /\ args.currentProcs = {2}

----------------------------------------------------------------------------
(* C13: when the pipeline has failed, its error is the error of the first  *)
(* failing forward operation: of the one failed deploy call of             *)
(* update-services, or, when no deploy call failed, of AppendAppImageName; *)
(* this is so whether the rollback calls that followed succeeded or        *)
(* failed.                                                                 *)
C13_FirstForwardError ==
    LET fw == CallsOf("forward")
        failedFw == {i \in 1..Len(fw) : ~fw[i].ok}
    IN /\ Failed =>
            /\ Cardinality(failedFw) <= 1
            /\ \A i \in failedFw : pipe.err = DeployErr(fw[i].proc) /\ i = Len(fw)
            /\ failedFw = {} => pipe.err = AppendErr /\ imageHistory = <<CurrentImage>>
       /\ Succeeded => pipe.err = NoErr /\ failedFw = {}

C13_Witness ==
    /\ Failed
    /\ pipe.err.kind = "deploy"
    /\ Len(RollbackCalls) >= 2
    /\ ~RollbackCalls[1].ok
    /\ RollbackCalls[1].proc # pipe.err.proc
    /\ RollbackCalls[2].ok

----------------------------------------------------------------------------
(* kubernetes: what the later claims speak about *)

\* This step is one deployNodeContainerForCluster.
ForClusterStep == ncCall.active /\ ncCall'.active /\ ncCall' # ncCall

----------------------------------------------------------------------------
(* C14: a deployNodeContainerForCluster whose Get fails with an error      *)
(* other than not-found returns an error, issues no Create and no Update   *)
(* and leaves every stored object as it was; one whose Get reports         *)
(* not-found goes on and issues the Create.                                *)
C14_GetError ==
    /\ [][(ForClusterStep /\ ~ncLast'.get) =>
            /\ ncLast'.result = "getError"
            /\ ncLast'.writes = <<>>
            /\ ncCall'.result = "error"
            /\ ncStored' = ncStored]_vars
    /\ []((ncLast.get /\ ncLast.result # "none" /\ ~ncLast.fetched.exists) =>
            /\ Fetched
            /\ Len(ncLast.writes) = 1
            /\ ncLast.writes[1].kind = "create")

C14_Witness ==
    /\ ~ncLast.get
    /\ ncLast.result = "getError"
    /\ ncStored[ncLast.cluster].exists
    /\ ncCall.n >= 2

\* ncLast is of a call made with the config object as it is now.
LastOfThisConfig == ~(ncCall.active /\ ncCall.result = "running" /\ ncCall.todo = ncRegistry)

\* The object rebuilt from the config whose binds, after the call, are binds.
Rebuilt(config, filter) ==
    [DaemonSet(config, Pool, filter) EXCEPT
        !.volumes = Volumes(config.binds),
        !.containers[1].volumeMounts = VolumeMounts(config.binds)]

----------------------------------------------------------------------------
(* C15: a deployNodeContainerForCluster issues at most one write.  If the  *)
(* Get found no object the write is a Create of the object rebuilt from    *)
(* the config, also in a placement-only call; if it found one and the      *)
(* call is not placement-only, an Update with the rebuilt object; if it    *)
(* found one and the call is placement-only, nothing or an Update of the   *)
(* fetched object with only its placement changed.  A Create is never      *)
(* issued for an object the Get found.                                     *)
C15_OneWrite ==
    /\ Len(ncLast.writes) <= 1
    /\ ~Fetched => ncLast.writes = <<>>
    /\ \A i \in 1..Len(ncLast.writes) :
         ncLast.writes[i].kind = "create" => ~ncLast.fetched.exists
    /\ (Fetched /\ LastOfThisConfig) =>
         /\ ~ncLast.fetched.exists =>
              ncLast.writes = <<[kind |-> "create",
                                 object |-> Rebuilt(ncConfig, ncLast.filter)]>>
         /\ (ncLast.fetched.exists /\ ~ncLast.placementOnly) =>
              ncLast.writes = <<[kind |-> "update",
                                 object |-> Rebuilt(ncConfig, ncLast.filter)]>>
         /\ (ncLast.fetched.exists /\ ncLast.placementOnly) =>
              \A i \in 1..Len(ncLast.writes) :
                 /\ ncLast.writes[i].kind = "update"
                 /\ OtherFields(ncLast.writes[i].object) = OtherFields(ncLast.fetched)

C15_Witness ==
    /\ Fetched
    /\ LastOfThisConfig
    /\ ~ncLast.fetched.exists
    /\ ncLast.placementOnly
    /\ Len(ncLast.writes) = 1
    /\ ncLast.writes[1].kind = "create"
    /\ ncLast.cluster = "c2"
    /\ ncStored["c1"].exists

----------------------------------------------------------------------------
\* The volumes of a daemon object that mount the first of the extra binds.
ExtraVolumes(ds) ==
    {i \in 1..Len(ds.volumes) : ds.volumes[i].hostPath = ExtraBinds[1][1]}

\* The fully rebuilt objects the last deployNodeContainerForCluster wrote.
RebuiltWrites ==
    {i \in 1..Len(ncLast.writes) : ~(ncLast.fetched.exists /\ ncLast.placementOnly)}

----------------------------------------------------------------------------
(* C19 as stated: DeployNodeContainer leaves the config it is given        *)
(* unchanged, the binds being the ones the config was loaded with, and     *)
(* every rebuilt object has one volume and one mount per bind of the       *)
(* loaded config, followed for the default system-monitor name by the      *)
(* three extra binds once.                                                 *)
C19_AsStated ==
    /\ ncConfig \in Configs(ncConfig.name)
    /\ \A i \in RebuiltWrites :
         LET ds == ncLast.writes[i].object IN
         /\ Len(ds.volumes) = Len(ds.containers[1].volumeMounts)
         /\ Cardinality(ExtraVolumes(ds)) =
               IF ds.containers[1].name = BsDefaultName THEN 1 ELSE 0
         /\ \E config \in Configs(ncConfig.name) :
               ds.volumes = Volumes(BindsAfter(config))

----------------------------------------------------------------------------
\* Forward and rollback calls of update-services are for processes of the
\* new image; calls of remove-old-services are removeService calls for
\* processes of the current image that the new image does not declare.
CallsInFrame ==
    \A i \in 1..Len(calls) :
       IF calls[i].phase = "removeOld"
       THEN /\ calls[i].op = "remove"
            /\ calls[i].proc \in args.currentProcs \ args.newProcs
       ELSE calls[i].proc \in args.newProcs

\* Until remove-old-services runs, the Services of the processes only the
\* current image declares are as they were.
OldOnlyUntouched ==
    CallsOf("removeOld") = <<>> =>
        \A p \in args.currentProcs \ args.newProcs : services[p] = CurrentImage

\* Call j removes the Service that the earlier call i deployed for the new image.
RemovesDeployed(i, j) ==
    /\ i < j
    /\ calls[i].phase = "forward" /\ calls[i].ok
    /\ calls[j].op = "remove" /\ calls[j].proc = calls[i].proc

----------------------------------------------------------------------------
(* C20 as stated: the calls stay in their frame, no call removes the       *)
(* Service of a process of the new image after its deploy succeeded, and   *)
(* the Services of processes only in the current image are untouched       *)
(* until remove-old-services runs.                                         *)
C20_AsStated ==
    /\ CallsInFrame
    /\ \A i, j \in 1..Len(calls) : ~RemovesDeployed(i, j)
    /\ OldOnlyUntouched

(* C20, amended: the calls stay in their frame; a call that removes the    *)
(* Service of a process of the new image after its deploy succeeded is a   *)
(* rollback call of update-services for a process the current image does   *)
(* not declare, never a call of remove-old-services; remove-old-services   *)
(* runs only after the new image was recorded; and the Services of         *)
(* processes only in the current image are untouched until it runs.        *)
C20_Frame ==
    /\ CallsInFrame
    /\ \A i, j \in 1..Len(calls) :
         RemovesDeployed(i, j) =>
            /\ calls[j].phase \in {"rollbackForward", "rollbackBackward"}
            /\ calls[j].proc \notin args.currentProcs
    /\ CallsOf("removeOld") # <<>> => imageHistory = <<CurrentImage, NewImage>>
    /\ OldOnlyUntouched

C20_Witness ==
    /\ Done
    /\ \E i, j \in 1..Len(calls) : RemovesDeployed(i, j) /\ calls[j].ok
    /\ \E i \in 1..Len(calls) :
         calls[i].phase = "rollbackForward" /\ calls[i].op = "deploy"
    /\ args.currentProcs \ args.newProcs # {}

----------------------------------------------------------------------------
(* docker: what the claims speak about *)

IpDone == dk.pc = "done"

\* The inspect output holds a non-empty string at NetworkSettings.IpAddress.
HasAddress(out) ==
    /\ out.t = "object"
    /\ out.ns.t = "object"
    /\ out.ns.ip.t = "string"
    /\ out.ns.ip.s # ""

----------------------------------------------------------------------------
(* C18 as stated: container.ip() never ends in a panic; it ends in a       *)
(* returned error when the inspect command fails, when the output is not   *)
(* valid JSON, when NetworkSettings is absent, null or not an object, and  *)
(* when IpAddress is absent, not a string or empty; and it returns an      *)
(* address only when the address is a non-empty string.                    *)
C18_AsStated ==
    IpDone =>
        /\ dk.result.kind # "panic"
        /\ (~dk.binaryOk \/ ~dk.inspectOk \/ ~HasAddress(dk.out)) => dk.result.kind = "error"
        /\ dk.result.kind = "ip" => HasAddress(dk.out) /\ dk.result.value = dk.out.ns.ip.s

----------------------------------------------------------------------------
(* swarm: two pipelines, what the claims speak about *)

BothDone == parked.mode # "none" /\ parked.started /\ Done /\ parked.pipe.pc = "done"

\* The calls of both pipelines.
BothCalls == IF parked.mode = "none" THEN calls ELSE calls \o parked.calls

\* The Services are those of the image of these pipelineArgs.
ServicesMatch(a) ==
    /\ Running = a.newProcs
    /\ \A p \in a.newProcs : services[p] = a.newImage

----------------------------------------------------------------------------
----------------------------------------------------------------------------
(* kubernetes: two callers, what the claims speak about *)

RaceBothDone == ncRace.mode # "none" /\ Len(ncRace.order) = 2

\* The caller that returned last.
RaceLater == ncRace.caller[ncRace.order[2]]

----------------------------------------------------------------------------
(* C17: when two calls for the same cluster, config name and pool are      *)
(* mutually excluded, the later one fetches the object the earlier one     *)
(* left and the object stored after both is the later call applied to it:  *)
(* the object left by the earlier call if the later one wrote nothing or   *)
(* failed; else an object that encodes the later call's filter, with the   *)
(* other fields of the earlier object if that exists and the later call    *)
(* is placement-only, and rebuilt from the later call's config otherwise,  *)
(* written by Create only if the earlier call left no object.  Without     *)
(* mutual exclusion both calls can fetch no object and both issue Create.  *)
C17_MutexSequential ==
    (RaceBothDone /\ ncRace.mode = "mutex") =>
        LET stored == ncStored[RaceCluster]
            before == ncRace.afterFirst
        IN /\ RaceLater.result # "getError" => RaceLater.oldDs = before
           /\ (RaceLater.result # "ok" \/ RaceLater.write = "none") => stored = before
           /\ (RaceLater.result = "ok" /\ RaceLater.write # "none") =>
                /\ stored.exists
                /\ Encodes(stored, RaceLater.filter)
                /\ RaceLater.write = "create" <=> ~before.exists
                /\ OtherFields(stored) =
                     IF before.exists /\ RaceLater.placementOnly
                     THEN OtherFields(before)
                     ELSE OtherFields(DaemonSet(RaceLater.config, Pool, RaceLater.filter))

C17_Witness ==
    /\ RaceBothDone
    /\ ncRace.mode = "free"
    /\ \A i \in RaceCallers :
         /\ ncRace.caller[i].result # "getError"
         /\ ~ncRace.caller[i].oldDs.exists
         /\ ncRace.caller[i].write = "create"

====
